---- MODULE Spec2Model ----
(***************************************************************************)
(* A model of mwparser-utils: the template_spec macro (derive/src/lib.rs)  *)
(* that compiles a list of template definitions into spec(), spec_of() and *)
(* parse_template(), the predicate engine `always`, the predicates of     *)
(* src/spec.rs, and the two passes of src/transformations.rs.              *)
(*                                                                         *)
(* Strings are sequences of one-character strings, so that trim() and      *)
(* to_lowercase() are computed and not assumed.  Option<T> is a sequence   *)
(* of length at most one: None == <<>>, Some(x) == <<x>>.                  *)
(***************************************************************************)
EXTENDS Naturals, Sequences, FiniteSets, TLC

VARIABLES
    defs,       \* Vec<SpecTemplate>: the specification list read by template_spec
    phase,      \* "authoring" | "compiled" | "panicked"
    registry,   \* the value of the generated spec(): Vec<TemplateSpec>
    arms,       \* the generated match arms of parse_template, one per template
    op,         \* the last operation applied: "none" or the function's name
    arg,        \* its argument
    found,      \* result of spec_of: Option<TemplateSpec>
    parsed,     \* result of parse_template: Option<KnownTemplate>
    pred,       \* the predicate handed to always(), or the TexChecker handed
                \* to normalize_math_formulas
    result,     \* PredResult of the last predicate check, or TResult of the
                \* last transformation
    calls       \* the node lists the predicate was invoked on, or the formulas
                \* the checker was asked about, in order

vars == <<defs, phase, registry, arms, op, arg, found, parsed, pred, result, calls>>

None == <<>>
Some(x) == <<x>>

----------------------------------------------------------------------------
(* Bounds *)

MaxTemplates == 2   \* definitions in a specification list
MaxArgs == 2        \* children of a template invocation
MaxStrLen == 3      \* length of a name looked up with spec_of
MaxNodes == 4       \* elements of a tree handed to always()
MaxPredNodes == 3   \* elements of a tree handed to a domain predicate

----------------------------------------------------------------------------
(* Strings *)

UpperChars == {"A", "B", "L", "M", "N", "O", "P", "S", "T", "U", "X", "Y"}

\* char::is_uppercase
is_uppercase(c) == c \in UpperChars

\* char::is_whitespace
is_whitespace(c) == c = " "

ToLowerChar(c) ==
    CASE c = "A" -> "a" [] c = "B" -> "b" [] c = "M" -> "m" [] c = "N" -> "n"
      [] c = "L" -> "l" [] c = "O" -> "o" [] c = "P" -> "p" [] c = "S" -> "s"
      [] c = "T" -> "t" [] c = "U" -> "u" [] c = "X" -> "x" [] c = "Y" -> "y"
      [] OTHER -> c

\* str::to_lowercase
to_lowercase(s) == [i \in 1..Len(s) |-> ToLowerChar(s[i])]

RECURSIVE trim_start(_)
trim_start(s) ==
    IF s # <<>> /\ is_whitespace(Head(s)) THEN trim_start(Tail(s)) ELSE s

RECURSIVE trim_end(_)
trim_end(s) ==
    IF s # <<>> /\ is_whitespace(s[Len(s)])
    THEN trim_end(SubSeq(s, 1, Len(s) - 1))
    ELSE s

\* str::trim
trim(s) == trim_end(trim_start(s))

\* str::starts_with
starts_with(s, prefix) ==
    Len(s) >= Len(prefix) /\ SubSeq(s, 1, Len(prefix)) = prefix

\* Vec::contains / slice::contains
contains(seq, x) == \E i \in 1..Len(seq) : seq[i] = x

\* A string of the model as a string literal, for format!.
RECURSIVE Str(_)
Str(s) == IF s = <<>> THEN "" ELSE Head(s) \o Str(Tail(s))

\* All sequences over S of length at most n.
SeqsUpTo(S, n) == UNION {[1..k -> S] : k \in 0..n}

----------------------------------------------------------------------------
(* Specification lists: the input of template_spec *)

SpecTemplate(id, names, format, attributes) ==
    [identifier |-> id, names |-> names, format |-> format, attributes |-> attributes]

SpecAttribute(id, names, priority, predicate) ==
    [identifier |-> id, names |-> names, priority |-> priority, predicate |-> predicate]

\* Attribute lists of well-formed definitions.  The second has a required
\* and an optional attribute with different aliases; the third an optional
\* attribute with two aliases, one of them written with a capital and a
\* leading blank, followed by a required attribute sharing the alias "u".
GoodAttributeLists ==
    { <<>>,
      << SpecAttribute(<<"x">>, << <<"t">> >>, "Required", "is_math_tag"),
         SpecAttribute(<<"y", "1">>, << <<"U", " ">> >>, "Optional", "is_plain_text") >>,
      << SpecAttribute(<<"x">>, << <<" ", "T">>, <<"u">> >>, "Optional", "everything_is_allowed"),
         SpecAttribute(<<"y", "1">>, << <<"u">> >>, "Required", "is_plain_text") >> }

GoodNameLists == { << <<"m">> >>, << <<" ", "M", " ">>, <<"n">> >> }

GoodDefs ==
    { SpecTemplate(id, names, format, attributes) :
        id \in {<<"A">>, <<"B", "b">>},
        names \in GoodNameLists,
        format \in {"Inline", "Block"},
        attributes \in GoodAttributeLists }

\* Definitions with one authoring error each.
BadDefs ==
    { SpecTemplate(<<"a">>, << <<"m">> >>, "Inline", <<>>),
      SpecTemplate(<<>>, << <<"m">> >>, "Inline", <<>>),
      SpecTemplate(<<"a", "B">>, << <<"n">> >>, "Block", <<>>),
      SpecTemplate(<<"A">>, <<>>, "Box", <<>>),
      SpecTemplate(<<"B", "b">>, << <<"n">> >>, "Box",
          << SpecAttribute(<<"x", "Y">>, << <<"t">> >>, "Optional", "is_plain_text") >>),
      SpecTemplate(<<"A">>, << <<"m">> >>, "Block",
          << SpecAttribute(<<"x">>, << <<"t">> >>, "Required", "is_math_tag"),
             SpecAttribute(<<"y", "1">>, <<>>, "Optional", "is_plain_text") >>) }

DefInputs == GoodDefs \cup BadDefs

----------------------------------------------------------------------------
(* Document tree: mediawiki_parser::Element.  Every element is a record of *)
(* the same shape; a kind leaves the fields it does not have empty.        *)
(*   text:    Text.text, TemplateArgument.name (strings)                   *)
(*   markup:  Formatted.markup                                             *)
(*   name:    Template.name, Heading.caption, Table.caption (node lists)   *)
(*   content: content, TemplateArgument.value, Table.rows, TableRow.cells  *)
(* A ListItem has its kind and depth, an Error its message, in addition.   *)
(* Positions (Span) are left out: no function of the model reads them.     *)

Element(kind, text, markup, name, content) ==
    [kind |-> kind, text |-> text, markup |-> markup, name |-> name, content |-> content]

Text(text) == Element("Text", text, "", <<>>, <<>>)
Paragraph(content) == Element("Paragraph", <<>>, "", <<>>, content)
Formatted(markup, content) == Element("Formatted", <<>>, markup, <<>>, content)
Template(name, content) == Element("Template", <<>>, "", name, content)
TemplateArgument(name, value) == Element("TemplateArgument", name, "", <<>>, value)
Heading(caption, content) == Element("Heading", <<>>, "", caption, content)
Table(caption, rows) == Element("Table", <<>>, "", caption, rows)
TableRow(cells) == Element("TableRow", <<>>, "", <<>>, cells)
TableCell(content) == Element("TableCell", <<>>, "", <<>>, content)
List(content) == Element("List", <<>>, "", <<>>, content)

ListItem(content, item_kind, depth) ==
    [kind |-> "ListItem", text |-> <<>>, markup |-> "", name |-> <<>>, content |-> content,
     item_kind |-> item_kind, depth |-> depth]

Error(message) ==
    [kind |-> "Error", text |-> <<>>, markup |-> "", name |-> <<>>, content |-> <<>>,
     message |-> message]

----------------------------------------------------------------------------
(* src/util.rs *)

RECURSIVE extract_plain_text(_)
extract_plain_text(content) ==
    IF content = <<>> THEN <<>>
    ELSE LET root == Head(content) IN
         (CASE root.kind = "Text" -> root.text
            [] root.kind = "Formatted" -> extract_plain_text(root.content)
            [] root.kind = "Paragraph" -> extract_plain_text(root.content)
            [] root.kind = "TemplateArgument" -> extract_plain_text(root.content)
            [] OTHER -> <<>>)
         \o extract_plain_text(Tail(content))

\* Mutant of find_arg: the child's name is compared as written, not lowercased.
RECURSIVE find_arg_case_sensitive(_, _)
find_arg_case_sensitive(content, arg_name) ==
    IF content = <<>> THEN None
    ELSE LET child == Head(content) IN
         IF /\ child.kind = "TemplateArgument"
            /\ trim(child.text) = to_lowercase(trim(arg_name))
         THEN Some(child)
         ELSE find_arg_case_sensitive(Tail(content), arg_name)

\* find_arg as written in util.rs: the first TemplateArgument child whose
\* name equals arg_name, both trimmed and lowercased.
RECURSIVE find_arg(_, _)
find_arg(content, arg_name) ==
    IF content = <<>> THEN None
    ELSE LET child == Head(content) IN
         IF /\ child.kind = "TemplateArgument"
            /\ to_lowercase(trim(child.text)) = to_lowercase(trim(arg_name))
         THEN Some(child)
         ELSE find_arg(Tail(content), arg_name)

\* find_arg as its callers use it, with a list of names (lib.rs:250,
\* transformations.rs:19): the first child that find_arg accepts for any
\* of the names.
RECURSIVE find_arg_names(_, _)
find_arg_names(content, arg_names) ==
    IF content = <<>> THEN None
    ELSE IF \E k \in 1..Len(arg_names) : find_arg(<<Head(content)>>, arg_names[k]) # None
         THEN Some(Head(content))
         ELSE find_arg_names(Tail(content), arg_names)

----------------------------------------------------------------------------
(* derive/src/lib.rs: the macro *)

\* Mutant of check_template: the alias lists of attributes are not checked.
check_template_unchecked_attribute_names(template) ==
    /\ template.identifier # <<>>
    /\ is_uppercase(Head(template.identifier))
    /\ template.names # <<>>
    /\ \A k \in 1..Len(template.attributes) :
          ~ \E j \in 1..Len(template.attributes[k].identifier) :
                is_uppercase(template.attributes[k].identifier[j])

\* True when check_template returns, FALSE when it panics.
check_template(template) ==
    LET first_uppercase ==
            IF template.identifier = <<>> THEN FALSE
            ELSE is_uppercase(Head(template.identifier))
    IN  /\ first_uppercase
        /\ template.names # <<>>
        /\ \A k \in 1..Len(template.attributes) :
              LET child == template.attributes[k] IN
              /\ ~ \E j \in 1..Len(child.identifier) : is_uppercase(child.identifier[j])
              /\ child.names # <<>>

str_to_lower_lit(input) == [i \in 1..Len(input) |-> to_lowercase(trim(input[i]))]

\* Mutant of implement_attribute_spec: the attributes come out in reverse.
implement_attribute_spec_reversed(template) ==
    [k \in 1..Len(template.attributes) |->
        LET attribute == template.attributes[Len(template.attributes) + 1 - k] IN
        [names |-> str_to_lower_lit(attribute.names),
         priority |-> attribute.priority,
         predicate_name |-> attribute.predicate]]

implement_attribute_spec(template) ==
    [k \in 1..Len(template.attributes) |->
        LET attribute == template.attributes[k] IN
        [names |-> str_to_lower_lit(attribute.names),
         priority |-> attribute.priority,
         predicate_name |-> attribute.predicate]]

implement_spec_list(templates) ==
    [i \in 1..Len(templates) |->
        [names |-> str_to_lower_lit(templates[i].names),
         format |-> templates[i].format,
         attributes |-> implement_attribute_spec(templates[i])]]

\* One generated arm of parse_template: what the quoted code of
\* implement_parsing_match holds of its template.
implement_parsing_match(template) ==
    [identifier |-> template.identifier,
     names |-> str_to_lower_lit(template.names),
     format |-> template.format,
     attributes |->
        [k \in 1..Len(template.attributes) |->
            [attr_name |-> template.attributes[k].identifier,
             alt_names |-> str_to_lower_lit(template.attributes[k].names),
             priority |-> template.attributes[k].priority]]]

implement_template_parsing(templates) ==
    [i \in 1..Len(templates) |-> implement_parsing_match(templates[i])]

\* spec_of over a generated spec() value.
RECURSIVE spec_of_from(_, _)
spec_of_from(specs, name) ==
    IF specs = <<>> THEN None
    ELSE IF contains(Head(specs).names, name) THEN Some(Head(specs))
    ELSE spec_of_from(Tail(specs), name)

\* Mutant of spec_of: the name is lowercased but not trimmed.
spec_of_untrimmed(specs, name) == spec_of_from(specs, to_lowercase(name))

spec_of(specs, name) == spec_of_from(specs, to_lowercase(trim(name)))

----------------------------------------------------------------------------
(* derive/src/lib.rs: the generated parse_template *)

\* The closure extract_content of parse_template.
extract_content(template, attr_names) ==
    LET a == find_arg_names(template.content, attr_names) IN
    IF a # None /\ a[1].kind = "TemplateArgument" THEN Some(a[1].content) ELSE None

\* Mutant of present_of: only required attributes are pushed.
RECURSIVE present_of_required_only(_, _)
present_of_required_only(attributes, template) ==
    IF attributes = <<>> THEN <<>>
    ELSE LET attr == Head(attributes)
             value == extract_content(template, attr.alt_names)
             rest == present_of_required_only(Tail(attributes), template)
         IN  IF value # None /\ attr.priority = "Required"
             THEN <<[name |-> attr.attr_name, priority |-> attr.priority, value |-> value[1]]>> \o rest
             ELSE rest

\* The block `present: { ... }` of an arm: one push per attribute found.
RECURSIVE present_of(_, _)
present_of(attributes, template) ==
    IF attributes = <<>> THEN <<>>
    ELSE LET attr == Head(attributes)
             value == extract_content(template, attr.alt_names)
             rest == present_of(Tail(attributes), template)
         IN  IF value # None
             THEN <<[name |-> attr.attr_name, priority |-> attr.priority, value |-> value[1]]>> \o rest
             ELSE rest

\* Mutant of parsing_match: the struct literal is built with an empty
\* `present` list.
parsing_match_nothing_present(arm, names, template) ==
    LET content(k) == extract_content(template, arm.attributes[k].alt_names) IN
    IF \E k \in 1..Len(arm.attributes) :
          arm.attributes[k].priority = "Required" /\ content(k) = None
    THEN None
    ELSE Some([identifier |-> arm.identifier,
               names |-> names,
               format |-> arm.format,
               fields |-> [k \in 1..Len(arm.attributes) |->
                              [name |-> arm.attributes[k].attr_name,
                               value |-> IF arm.attributes[k].priority = "Required"
                                         THEN content(k)[1]
                                         ELSE content(k)]],
               present |-> <<>>])

\* The body of an arm whose names contain the name: the struct literal.  A
\* required field whose argument is missing returns None from parse_template.
parsing_match(arm, names, template) ==
    LET content(k) == extract_content(template, arm.attributes[k].alt_names) IN
    IF \E k \in 1..Len(arm.attributes) :
          arm.attributes[k].priority = "Required" /\ content(k) = None
    THEN None
    ELSE Some([identifier |-> arm.identifier,
               names |-> names,
               format |-> arm.format,
               fields |-> [k \in 1..Len(arm.attributes) |->
                              [name |-> arm.attributes[k].attr_name,
                               value |-> IF arm.attributes[k].priority = "Required"
                                         THEN content(k)[1]
                                         ELSE content(k)]],
               present |-> present_of(arm.attributes, template)])

\* Mutant of template_kinds: an arm that misses a required argument falls
\* through to the next arm.
RECURSIVE template_kinds_fall_through(_, _, _)
template_kinds_fall_through(rest, name, template) ==
    IF rest = <<>> THEN None
    ELSE LET names == str_to_lower_lit(Head(rest).names) IN
         IF contains(names, name) /\ parsing_match(Head(rest), names, template) # None
         THEN parsing_match(Head(rest), names, template)
         ELSE template_kinds_fall_through(Tail(rest), name, template)

\* The arms in sequence: #( #template_kinds )* None
RECURSIVE template_kinds(_, _, _)
template_kinds(rest, name, template) ==
    IF rest = <<>> THEN None
    ELSE LET names == str_to_lower_lit(Head(rest).names) IN
         IF contains(names, name)
         THEN parsing_match(Head(rest), names, template)
         ELSE template_kinds(Tail(rest), name, template)

parse_template(generated, template) ==
    template_kinds(generated, to_lowercase(trim(extract_plain_text(template.name))), template)

\* KnownTemplate::find: the first entry of `present` with the name.
RECURSIVE find_in(_, _)
find_in(present, name) ==
    IF present = <<>> THEN None
    ELSE IF Head(present).name = name THEN Some(Head(present))
    ELSE find_in(Tail(present), name)

find(known, name) == find_in(known.present, name)

----------------------------------------------------------------------------
(* derive/src/lib.rs, spec_meta: the predicate engine *)

\* PredResult: Ok(()) or Err(PredError {tree, cause}).
Ok == [ok |-> TRUE, tree |-> None, cause |-> ""]
Err(tree, cause) == [ok |-> FALSE, tree |-> tree, cause |-> cause]

\* slice::first
first(elems) == IF elems = <<>> THEN None ELSE Some(Head(elems))

\* The node lists of an element that Traversion::run hands to run_vec, in
\* document order.
ChildLists(root) ==
    CASE root.kind = "Text" -> <<>>
      [] root.kind \in {"Template", "Heading", "Table"} -> <<root.name, root.content>>
      [] OTHER -> <<root.content>>

\* Mutant of is_math_tag: any Formatted element passes.
is_math_tag_any_markup(elems) ==
    IF Len(elems) # 1
    THEN Err(None, "There is none or more than one element in this math tag!")
    ELSE IF Head(elems).kind = "Formatted"
         THEN Ok
         ELSE Err(first(elems), "This is not math-formatted text!")

\* spec.rs is_math_tag
is_math_tag(elems) ==
    IF Len(elems) # 1
    THEN Err(None, "There is none or more than one element in this math tag!")
    ELSE IF Head(elems).kind = "Formatted"
         THEN IF Head(elems).markup # "Math"
              THEN Err(first(elems), "This is not math-formatted!")
              ELSE Ok
         ELSE Err(first(elems), "This is not math-formatted text!")

\* spec.rs is_plain_text::shallow
RECURSIVE plain_text_shallow(_)
plain_text_shallow(elements) ==
    IF elements = <<>> THEN Ok
    ELSE IF Head(elements).kind \in {"Paragraph", "Text"}
         THEN plain_text_shallow(Tail(elements))
         ELSE Err(Some(Head(elements)), "This markup is not allowed in plain text!")

\* spec.rs get_template_spec: [ok, spec] or [ok, err].
get_template_spec(specs, template) ==
    LET name == extract_plain_text(template.name)
        spec == spec_of(specs, name)
    IN  IF spec # None
        THEN [ok |-> TRUE, spec |-> spec[1]]
        ELSE [ok |-> FALSE,
              err |-> Err(None, "\"" \o Str(name) \o "\" has no specification!")]

ProofStep == <<"P", "r", "o", "o", "f", "S", "t", "e", "p">>

NotInlineCause(template) ==
    "\"" \o Str(extract_plain_text(template.name)) \o "\" is not an inline template!"

\* Mutant of theorem_paragraph_shallow: no template kind is exempt from the
\* format rule.
RECURSIVE theorem_paragraph_shallow_no_exemption(_, _, _)
theorem_paragraph_shallow_no_exemption(specs, generated, elems) ==
    IF elems = <<>> THEN Ok
    ELSE LET elem == Head(elems)
             rest == theorem_paragraph_shallow_no_exemption(specs, generated, Tail(elems))
         IN  CASE elem.kind = "Template" ->
                    LET spec == get_template_spec(specs, elem) IN
                    IF ~spec.ok THEN spec.err
                    ELSE IF spec.spec.format # "Inline"
                         THEN Err(Some(elem), NotInlineCause(elem))
                         ELSE rest
               [] elem.kind \in {"Heading", "Table", "TableRow", "TableCell"} ->
                    Err(Some(elem), "This markup is not allowed in proofs!")
               [] OTHER -> rest

\* spec.rs is_theorem_paragraph::shallow, over the generated spec() and
\* parse_template.
RECURSIVE theorem_paragraph_shallow(_, _, _)
theorem_paragraph_shallow(specs, generated, elems) ==
    IF elems = <<>> THEN Ok
    ELSE LET elem == Head(elems)
             rest == theorem_paragraph_shallow(specs, generated, Tail(elems))
         IN  CASE elem.kind = "Template" ->
                    LET spec == get_template_spec(specs, elem)
                        parsed_template == parse_template(generated, elem)
                    IN  IF ~spec.ok THEN spec.err
                        ELSE IF parsed_template # None
                                /\ parsed_template[1].identifier = ProofStep
                             THEN rest
                             ELSE IF spec.spec.format # "Inline"
                                  THEN Err(Some(elem), NotInlineCause(elem))
                                  ELSE rest
               [] elem.kind \in {"Heading", "Table", "TableRow", "TableCell"} ->
                    Err(Some(elem), "This markup is not allowed in proofs!")
               [] OTHER -> rest

\* A Predicate is a record: `name` says which function it is.  "fails_on" is a
\* caller's predicate that fails exactly on the node lists in `fails`.
FailsOn(lists) == [name |-> "fails_on", fails |-> lists]
Named(name) == [name |-> name, fails |-> {}]

\* (predicate)(root)
Apply(predicate, root) ==
    CASE predicate.name = "fails_on" ->
            IF root \in predicate.fails THEN Err(first(root), "fails") ELSE Ok
      [] predicate.name = "is_math_tag" -> is_math_tag(root)
      [] predicate.name = "is_plain_text::shallow" -> plain_text_shallow(root)
      [] predicate.name = "is_theorem_paragraph::shallow" ->
            theorem_paragraph_shallow(registry, arms, root)

\* A TreeChecker is [result, calls]: `calls` records the node lists the
\* predicate was invoked on.

\* Mutant of work_vec: the predicate is invoked whatever the result so far.
work_vec_unguarded(checker, root, predicate) ==
    [checker |-> [result |-> Apply(predicate, root), calls |-> Append(checker.calls, root)],
     continue |-> TRUE]

\* TreeChecker::work_vec: the checker after the call, and the returned bool.
work_vec(checker, root, predicate) ==
    IF ~checker.result.ok
    THEN [checker |-> checker, continue |-> FALSE]
    ELSE [checker |-> [result |-> Apply(predicate, root), calls |-> Append(checker.calls, root)],
          continue |-> TRUE]

RECURSIVE run_vec(_, _, _)
RECURSIVE run_elems(_, _, _)
RECURSIVE run_lists(_, _, _)

\* Traversion::run_vec: work_vec, and unless it returned false, run on every
\* element.
run_vec(checker, content, predicate) ==
    LET w == work_vec(checker, content, predicate) IN
    IF ~w.continue THEN w.checker ELSE run_elems(w.checker, content, predicate)

\* for elem in content { self.run(elem) }; run hands each node list of the
\* element to run_vec.
run_elems(checker, content, predicate) ==
    IF content = <<>> THEN checker
    ELSE run_elems(run_lists(checker, ChildLists(Head(content)), predicate),
                   Tail(content), predicate)

run_lists(checker, lists, predicate) ==
    IF lists = <<>> THEN checker
    ELSE run_lists(run_vec(checker, Head(lists), predicate), Tail(lists), predicate)

\* Mutant of always: the predicate is applied to the root list only.
always_shallow(root, predicate) ==
    [result |-> Apply(predicate, root), calls |-> <<root>>]

\* always: the checker after run_vec; its `result` is what always returns.
always(root, predicate) == run_vec([result |-> Ok, calls |-> <<>>], root, predicate)

----------------------------------------------------------------------------
(* src/spec.rs: the predicates *)

is_plain_text(elems) == always(elems, Named("is_plain_text::shallow")).result

NegativeSwitchCause == "The content of this argument is only allowed to be \"nein\"."

\* Mutant of is_negative_switch: the markup is not checked.
is_negative_switch_any_markup(elems) ==
    IF trim(extract_plain_text(elems)) = <<"n", "e", "i", "n">>
    THEN Ok
    ELSE Err(first(elems), NegativeSwitchCause)

is_negative_switch(elems) ==
    IF is_plain_text(elems).ok /\ trim(extract_plain_text(elems)) = <<"n", "e", "i", "n">>
    THEN Ok
    ELSE Err(first(elems), NegativeSwitchCause)

is_theorem_paragraph(elems) == always(elems, Named("is_theorem_paragraph::shallow")).result

----------------------------------------------------------------------------
(* src/transformations.rs *)

\* TResult: neither transformation builds a TransformationError, so every
\* result is Ok(element).
TOk(element) == [ok |-> TRUE, value |-> element]

RECURSIVE convert_template_list_rec(_)
RECURSIVE recurse_inplace_list(_)
RECURSIVE drain(_, _, _)

\* Mutant of drain: a new item is put in front of the items collected so far.
RECURSIVE drain_items_reversed(_, _, _)
drain_items_reversed(children, item_kind, list_content) ==
    IF children = <<>> THEN [sublist |-> None, list_content |-> list_content]
    ELSE LET child == Head(children) IN
         IF child.kind # "TemplateArgument"
         THEN drain_items_reversed(Tail(children), item_kind, list_content)
         ELSE IF starts_with(child.text, <<"i", "t", "e", "m">>)
              THEN drain_items_reversed(Tail(children), item_kind,
                         <<ListItem(child.content, item_kind, 1)>> \o list_content)
              ELSE IF starts_with(child.text, <<"l", "i", "s", "t">>)
                   THEN IF child.content = <<>>
                        THEN drain_items_reversed(Tail(children), item_kind, list_content)
                        ELSE [sublist |-> Some(Head(child.content)),
                              list_content |-> list_content]
                   ELSE drain_items_reversed(Tail(children), item_kind, list_content)

\* The loop `for child in template.content.drain(..)`: the element the loop
\* returned from, if any, and list_content when it ended.
drain(children, item_kind, list_content) ==
    IF children = <<>> THEN [sublist |-> None, list_content |-> list_content]
    ELSE LET child == Head(children) IN
         IF child.kind # "TemplateArgument"
         THEN drain(Tail(children), item_kind, list_content)
         ELSE IF starts_with(child.text, <<"i", "t", "e", "m">>)
              THEN drain(Tail(children), item_kind,
                         Append(list_content, ListItem(child.content, item_kind, 1)))
              ELSE IF starts_with(child.text, <<"l", "i", "s", "t">>)
                   THEN IF child.content = <<>>
                        THEN drain(Tail(children), item_kind, list_content)
                        ELSE [sublist |-> Some(Head(child.content)),
                              list_content |-> list_content]
                   ELSE drain(Tail(children), item_kind, list_content)

\* recurse_inplace(&convert_template_list_rec, root, ()): the element with
\* every child replaced by the function's result for it.
recurse_inplace_list(root) ==
    [root EXCEPT
        !.name = [i \in 1..Len(@) |-> convert_template_list_rec(@[i])],
        !.content = [i \in 1..Len(@) |-> convert_template_list_rec(@[i])]]

\* Mutant of convert_template_list_rec: the sublist of an argument "list" is
\* wrapped in a new List.
convert_template_list_rec_wrapping(root) ==
    IF /\ root.kind = "Template"
       /\ to_lowercase(trim(extract_plain_text(root.name)))
             \in {<<"l", "i", "s", "t">>, <<"l", "i", "s", "t", "e">>}
    THEN LET type_arg == find_arg_names(root.content, << <<"t", "y", "p", "e">> >>)
             list_type ==
                 IF type_arg # None /\ type_arg[1].kind = "TemplateArgument"
                 THEN to_lowercase(extract_plain_text(type_arg[1].content))
                 ELSE <<>>
             item_kind ==
                 IF trim(list_type) \in {<<"o", "l">>, <<"o", "r", "d", "e", "r", "e", "d">>}
                 THEN "Ordered"
                 ELSE "Unordered"
             loop == drain(root.content, item_kind, <<>>)
         IN  IF loop.sublist # None
             THEN recurse_inplace_list(List(<<loop.sublist[1]>>))
             ELSE recurse_inplace_list(List(loop.list_content))
    ELSE recurse_inplace_list(root)

convert_template_list_rec(root) ==
    IF /\ root.kind = "Template"
       /\ to_lowercase(trim(extract_plain_text(root.name)))
             \in {<<"l", "i", "s", "t">>, <<"l", "i", "s", "t", "e">>}
    THEN LET type_arg == find_arg_names(root.content, << <<"t", "y", "p", "e">> >>)
             list_type ==
                 IF type_arg # None /\ type_arg[1].kind = "TemplateArgument"
                 THEN to_lowercase(extract_plain_text(type_arg[1].content))
                 ELSE <<>>
             item_kind ==
                 IF trim(list_type) \in {<<"o", "l">>, <<"o", "r", "d", "e", "r", "e", "d">>}
                 THEN "Ordered"
                 ELSE "Unordered"
             loop == drain(root.content, item_kind, <<>>)
         IN  IF loop.sublist # None
             THEN recurse_inplace_list(loop.sublist[1])
             ELSE recurse_inplace_list(List(loop.list_content))
    ELSE recurse_inplace_list(root)

convert_template_list(root) == TOk(convert_template_list_rec(root))

\* TexResult, and a TexChecker: a function from formulas to results.
TexResult(type, value) == [type |-> type, value |-> value]

check(checker, text) == checker[text]

\* Mutant of check_formula: the formula is the first content element, however
\* many there are.
check_formula_first_element(content, checker) ==
    IF content = <<>>
    THEN [element |-> Error("A formula must have exactly one content element!"),
          asked |-> <<>>]
    ELSE IF content[1].kind = "Text"
         THEN LET checked_formula == check(checker, content[1].text) IN
              [element |-> IF checked_formula.type = "Ok"
                           THEN Text(checked_formula.value)
                           ELSE Error("latex syntax error!"),
               asked |-> <<content[1].text>>]
         ELSE [element |-> Error("A formula must only have text as content!"),
               asked |-> <<>>]

\* check_formula: the element, and the formulas the checker was asked about.
\* The back quotes around the function's name are written as quotes.
check_formula(content, checker) ==
    IF Len(content) # 1
    THEN [element |-> Error("A formula must have exactly one content element!"),
          asked |-> <<>>]
    ELSE IF content[1].kind = "Text"
         THEN LET checked_formula == check(checker, content[1].text)
                  cause ==
                      CASE checked_formula.type = "UnknownFunction" ->
                              "unknown latex function '" \o Str(checked_formula.value) \o "'!"
                        [] checked_formula.type = "SyntaxError" -> "latex syntax error!"
                        [] checked_formula.type = "LexingError" -> "latex lexer error!"
                        [] checked_formula.type = "UnknownError" -> "unknown latex error!"
                        [] OTHER -> ""
              IN  [element |-> IF checked_formula.type = "Ok"
                               THEN Text(checked_formula.value)
                               ELSE Error(cause),
                   asked |-> <<content[1].text>>]
         ELSE [element |-> Error("A formula must only have text as content!"),
               asked |-> <<>>]

RECURSIVE normalize_math_formulas_rec(_, _)
RECURSIVE recurse_inplace_math(_, _)
RECURSIVE apply_math(_, _)

\* The function applied to the elements of a node list, in order.
apply_math(content, checker) ==
    IF content = <<>> THEN [content |-> <<>>, asked |-> <<>>]
    ELSE LET h == normalize_math_formulas_rec(Head(content), checker)
             t == apply_math(Tail(content), checker)
         IN  [content |-> <<h.element>> \o t.content, asked |-> h.asked \o t.asked]

\* recurse_inplace(&normalize_math_formulas, root, checker)
recurse_inplace_math(root, checker) ==
    LET name == apply_math(root.name, checker)
        content == apply_math(root.content, checker)
    IN  [element |-> [root EXCEPT !.name = name.content, !.content = content.content],
         asked |-> name.asked \o content.asked]

\* normalize_math_formulas: the element, and the formulas the checker was
\* asked about.
normalize_math_formulas_rec(root, checker) ==
    IF root.kind = "Formatted" /\ root.markup = "Math"
    THEN LET e == check_formula(root.content, checker) IN
         IF e.element.kind = "Text"
         THEN LET rest == recurse_inplace_math([root EXCEPT !.content = <<e.element>>], checker)
              IN  [element |-> rest.element, asked |-> e.asked \o rest.asked]
         ELSE e
    ELSE recurse_inplace_math(root, checker)

normalize_math_formulas(root, checker) ==
    LET r == normalize_math_formulas_rec(root, checker) IN
    [result |-> TOk(r.element), asked |-> r.asked]

----------------------------------------------------------------------------
(* State machine *)

NoPredicate == Named("none")

Init ==
    /\ defs = <<>>
    /\ phase = "authoring"
    /\ registry = <<>>
    /\ arms = <<>>
    /\ op = "none"
    /\ arg = <<>>
    /\ found = None
    /\ parsed = None
    /\ pred = NoPredicate
    /\ result = Ok
    /\ calls = <<>>

\* One more definition is written into the specification file.  Template
\* identifiers become enum variants and struct names, so they are distinct.
AddDefinition ==
    /\ phase = "authoring"
    /\ Len(defs) < MaxTemplates
    /\ \E d \in DefInputs :
          /\ \A i \in 1..Len(defs) : defs[i].identifier # d.identifier
          /\ defs' = Append(defs, d)
    /\ UNCHANGED <<phase, registry, arms, op, arg, found, parsed, pred, result, calls>>

\* template_spec: every template is checked (implement_template_id runs
\* check_template on each before anything is emitted), then the code is generated.
Compile ==
    /\ phase = "authoring"
    /\ IF \A i \in 1..Len(defs) : check_template(defs[i])
       THEN /\ phase' = "compiled"
            /\ registry' = implement_spec_list(defs)
            /\ arms' = implement_template_parsing(defs)
       ELSE /\ phase' = "panicked"
            /\ UNCHANGED <<registry, arms>>
    /\ UNCHANGED <<defs, op, arg, found, parsed, pred, result, calls>>

NameChars == {"m", "M", "n", " "}

SpecOf ==
    /\ phase = "compiled"
    /\ op = "none"
    /\ op' = "spec_of"
    /\ \E name \in SeqsUpTo(NameChars, MaxStrLen) :
          /\ arg' = name
          /\ found' = spec_of(registry, name)
    /\ UNCHANGED <<defs, phase, registry, arms, parsed, pred, result, calls>>

\* Names of template invocations: a known alias, one to trim and lowercase,
\* one split over two nodes, one inside formatting, and an unknown one.
TemplateNameInputs ==
    { <<Text(<<"n">>)>>,
      <<Text(<<" ", "M">>)>>,
      <<Text(<<"m">>), Text(<<" ">>)>>,
      <<Formatted("Bold", <<Text(<<"N">>)>>)>>,
      <<Text(<<"m">>), Text(<<"m">>)>> }

ArgNameInputs == { <<"t">>, <<"T", " ">>, <<"u">> }

Digits == <<"1", "2", "3", "4", "5", "6", "7", "8", "9">>

\* The children of an invocation: an argument of each name, or a node that
\* is no argument.  The value of the i-th child is the text "i", so that the
\* child a value was taken from can be told.
ChildInputs == ArgNameInputs \cup {<<>>}

Child(n, i) ==
    IF n = <<>> THEN Text(<<"t">>) ELSE TemplateArgument(n, <<Text(<<Digits[i]>>)>>)

TemplateInputs ==
    { Template(name, [i \in 1..Len(c) |-> Child(c[i], i)]) :
        name \in TemplateNameInputs, c \in SeqsUpTo(ChildInputs, MaxArgs) }

ParseTemplate ==
    /\ phase = "compiled"
    /\ op = "none"
    /\ op' = "parse_template"
    /\ \E template \in TemplateInputs :
          /\ arg' = template
          /\ parsed' = parse_template(arms, template)
    /\ UNCHANGED <<defs, phase, registry, arms, found, pred, result, calls>>

\* The call returns to its caller: calls are synchronous, one at a time.
Return ==
    /\ op # "none"
    /\ op' = "none"
    /\ arg' = <<>>
    /\ found' = None
    /\ parsed' = None
    /\ pred' = NoPredicate
    /\ result' = Ok
    /\ calls' = <<>>
    /\ UNCHANGED <<defs, phase, registry, arms>>

Next ==
    \/ AddDefinition
    \/ Compile
    \/ SpecOf
    \/ ParseTemplate
    \/ Return

Spec == Init /\ [][Next]_vars

----------------------------------------------------------------------------
(* The predicate engine and the predicates, applied to document trees *)

\* The node lists of exactly n elements.  Leaves are elements without
\* children; Wrap and Two are the [kind, markup] of the elements with one
\* node list (content) and with two (name, content).
RECURSIVE Forests(_, _, _, _)
Forests(n, Leaves, Wrap, Two) ==
    IF n = 0 THEN {<<>>}
    ELSE UNION {
        LET Trees ==
                (IF k = 1 THEN Leaves ELSE {})
                \cup { Element(w.kind, <<>>, w.markup, <<>>, f) :
                          w \in Wrap, f \in Forests(k - 1, Leaves, Wrap, Two) }
                \cup UNION { { Element(w.kind, <<>>, w.markup, f1, f2) :
                                  w \in Two,
                                  f1 \in Forests(i, Leaves, Wrap, Two),
                                  f2 \in Forests(k - 1 - i, Leaves, Wrap, Two) } :
                             i \in 0..(k - 1) }
        IN  { <<t>> \o f : t \in Trees, f \in Forests(n - k, Leaves, Wrap, Two) } :
        k \in 1..n }

Kind(kind, markup) == [kind |-> kind, markup |-> markup]

\* Trees handed to always(): shapes matter, texts do not.
AlwaysInputs ==
    UNION { Forests(n, {Text(<<"n">>)}, {Kind("Paragraph", "")}, {Kind("Template", "")}) :
            n \in 0..MaxNodes }

\* Trees handed to the predicates of spec.rs.
PredicateInputs ==
    UNION { Forests(n,
                    {Text(<<"n", "e", "i", "n">>), Text(<<"N", "e", "i", "n">>),
                     Text(<<" ", "n", "e">>), Text(<<"i", "n", " ">>)},
                    {Kind("Paragraph", ""), Kind("Formatted", "Math"), Kind("Formatted", "Bold")},
                    {}) :
            n \in 0..MaxPredNodes }

\* Every node list of a tree: the list itself and the node lists inside it.
RECURSIVE NodeLists(_)
NodeLists(nodes) ==
    {nodes} \cup
    UNION { UNION { NodeLists(ChildLists(nodes[i])[j]) : j \in 1..Len(ChildLists(nodes[i])) } :
            i \in 1..Len(nodes) }

\* A caller's predicate for a tree: it fails on some of the tree's node lists.
PredicateInputsFor(nodes) ==
    { FailsOn(F) : F \in SUBSET NodeLists(nodes) } \cup { Named("is_math_tag") }

Always ==
    /\ op = "none"
    /\ op' = "always"
    /\ \E nodes \in AlwaysInputs : \E predicate \in PredicateInputsFor(nodes) :
          LET checker == always(nodes, predicate) IN
          /\ arg' = nodes
          /\ pred' = predicate
          /\ result' = checker.result
          /\ calls' = checker.calls
    /\ UNCHANGED <<defs, phase, registry, arms, found, parsed>>

IsMathTag ==
    /\ op = "none"
    /\ op' = "is_math_tag"
    /\ \E elems \in PredicateInputs :
          /\ arg' = elems
          /\ result' = is_math_tag(elems)
    /\ UNCHANGED <<defs, phase, registry, arms, found, parsed, pred, calls>>

IsPlainText ==
    /\ op = "none"
    /\ op' = "is_plain_text"
    /\ \E elems \in PredicateInputs :
          /\ arg' = elems
          /\ result' = is_plain_text(elems)
    /\ UNCHANGED <<defs, phase, registry, arms, found, parsed, pred, calls>>

IsNegativeSwitch ==
    /\ op = "none"
    /\ op' = "is_negative_switch"
    /\ \E elems \in PredicateInputs :
          /\ arg' = elems
          /\ result' = is_negative_switch(elems)
    /\ UNCHANGED <<defs, phase, registry, arms, found, parsed, pred, calls>>

NextCheck ==
    \/ Always
    \/ IsMathTag
    \/ IsPlainText
    \/ IsNegativeSwitch
    \/ Return

SpecCheck == Init /\ [][NextCheck]_vars

----------------------------------------------------------------------------
(* is_theorem_paragraph over a compiled specification with a ProofStep     *)
(* template                                                                *)

RequiredArgument == << SpecAttribute(<<"x">>, << <<"t">> >>, "Required", "is_math_tag") >>

\* ProofStep is a block template; one variant has a required attribute, one
\* is written as an inline template.
ProofStepDefs ==
    { SpecTemplate(ProofStep, << <<"p">> >>, "Block", <<>>),
      SpecTemplate(ProofStep, << <<"p">> >>, "Block", RequiredArgument),
      SpecTemplate(ProofStep, << <<"p">> >>, "Inline", RequiredArgument) }

\* Another template, inline or not; with the alias "p" it hides ProofStep
\* when it is defined first.
OtherDefs ==
    { SpecTemplate(<<"A">>, << <<"m">> >>, "Inline", <<>>),
      SpecTemplate(<<"A">>, << <<"m">> >>, "Box", <<>>),
      SpecTemplate(<<"A">>, << <<"p">>, <<"m">> >>, "Inline", <<>>),
      SpecTemplate(<<"A">>, << <<"p">>, <<"m">> >>, "Block", <<>>) }

TheoremDefLists ==
    {<<>>}
    \cup { <<p, a>> : p \in ProofStepDefs, a \in OtherDefs }
    \cup { <<a, p>> : a \in {d \in OtherDefs : Len(d.names) = 2}, p \in ProofStepDefs }

\* The specification file has been written; the macro has not run yet.
InitTemplates ==
    /\ defs \in TheoremDefLists
    /\ phase = "authoring"
    /\ registry = <<>>
    /\ arms = <<>>
    /\ op = "none"
    /\ arg = <<>>
    /\ found = None
    /\ parsed = None
    /\ pred = NoPredicate
    /\ result = Ok
    /\ calls = <<>>

\* Names of the templates in a theorem: "m", "p" written " P", and a name
\* without specification.
TheoremNames == { <<Text(<<"m">>)>>, <<Text(<<" ", "P">>)>>, <<Text(<<"q">>)>> }

TheoremLeaves ==
    { Text(<<"x">>), Heading(<<>>, <<>>), Table(<<>>, <<>>), TableRow(<<>>), TableCell(<<>>) }

\* The elements of exactly k nodes (names and arguments not counted), given
\* the node lists F[j + 1] of exactly j < k nodes: leaves, paragraphs, and
\* templates that hold their inner nodes as the value of an argument "t".
TheoremTrees(k, F) ==
    (IF k = 1 THEN TheoremLeaves ELSE {})
    \cup { Paragraph(f) : f \in F[k] \ {<<>>} }
    \cup { Template(name, IF f = <<>> THEN <<>> ELSE <<TemplateArgument(<<"t">>, f)>>) :
              name \in TheoremNames, f \in F[k] }

\* The sequence of the sets of node lists of exactly 0, 1, ..., n nodes.
RECURSIVE TheoremForests(_)
TheoremForests(n) ==
    IF n = 0 THEN << {<<>>} >>
    ELSE LET F == TheoremForests(n - 1) IN
         Append(F, UNION { { <<t>> \o f : t \in TheoremTrees(k, F), f \in F[n - k + 1] } :
                           k \in 1..n })

TheoremInputs ==
    LET F == TheoremForests(MaxPredNodes) IN UNION { F[n + 1] : n \in 0..MaxPredNodes }

IsTheoremParagraph ==
    /\ phase = "compiled"
    /\ op = "none"
    /\ op' = "is_theorem_paragraph"
    /\ \E elems \in TheoremInputs :
          /\ arg' = elems
          /\ result' = is_theorem_paragraph(elems)
    /\ UNCHANGED <<defs, phase, registry, arms, found, parsed, pred, calls>>

NextTheorem ==
    \/ Compile
    \/ IsTheoremParagraph
    \/ Return

SpecTheorem == InitTemplates /\ [][NextTheorem]_vars

----------------------------------------------------------------------------
(* The transformations, applied to document trees *)

\* Names of templates: "list", "liste" written " Liste", and another name.
ListTemplateNames ==
    { <<Text(<<"l", "i", "s", "t">>)>>,
      <<Text(<<" ", "L", "i", "s", "t", "e">>)>>,
      <<Text(<<"x">>)>> }

\* Arguments "type": ordered, ordered written in capitals with blanks around
\* name and value, and unordered.
TypeArguments ==
    { TemplateArgument(<<"t", "y", "p", "e">>, <<Text(<<"o", "l">>)>>),
      TemplateArgument(<<"t", "y", "p", "e">>, <<Text(<<"o", "r", "d", "e", "r", "e", "d">>)>>),
      TemplateArgument(<<"T", "y", "p", "e", " ">>, <<Text(<<" ", "O", "L">>)>>),
      TemplateArgument(<<"t", "y", "p", "e">>, <<Text(<<"u", "l">>)>>) }

ValueArgumentNames == { <<"i", "t", "e", "m", "1">>, <<"l", "i", "s", "t">> }

\* The elements of exactly k nodes, given the node lists F[j + 1] and the
\* argument lists A[j + 1] of exactly j < k nodes: texts, lists and
\* templates.
ListTrees(k, F, A) ==
    (IF k = 1 THEN {Text(<<"a">>)} ELSE {})
    \cup { List(f) : f \in F[k] }
    \cup { Template(name, a) : name \in ListTemplateNames, a \in A[k] }

\* The arguments of exactly k nodes.  An argument "type" with its text counts
\* as one node.
ListArgs(k, F) ==
    (IF k = 1 THEN TypeArguments ELSE {})
    \cup { TemplateArgument(name, f) : name \in ValueArgumentNames, f \in F[k] }

\* forests[j + 1] and args[j + 1] are the node lists and the argument lists
\* of exactly j nodes, for j up to n.
RECURSIVE ListForests(_)
ListForests(n) ==
    IF n = 0 THEN [forests |-> << {<<>>} >>, args |-> << {<<>>} >>]
    ELSE LET prev == ListForests(n - 1)
             F == prev.forests
             A == prev.args
         IN  [forests |->
                Append(F, UNION { { <<t>> \o f : t \in ListTrees(k, F, A), f \in F[n - k + 1] } :
                                  k \in 1..n }),
              args |->
                Append(A, UNION { { <<a>> \o f : a \in ListArgs(k, F), f \in A[n - k + 1] } :
                                  k \in 1..n })]

\* Document trees handed to convert_template_list: at most n nodes.
ListInputs(n) ==
    LET smaller == ListForests(n - 1) IN
    UNION { ListTrees(k, smaller.forests, smaller.args) : k \in 1..n }

FormulaTexts == { <<"a">>, <<"b">> }

TexResults ==
    { TexResult("Ok", <<"c">>),
      TexResult("UnknownFunction", <<"f">>),
      TexResult("SyntaxError", <<>>),
      TexResult("LexingError", <<>>),
      TexResult("UnknownError", <<>>) }

CheckerInputs == [FormulaTexts -> TexResults]

\* Document trees handed to normalize_math_formulas: texts, and formatted
\* nodes around the node lists of less than n nodes.
MathInputs(n) ==
    { Text(t) : t \in FormulaTexts }
    \cup { Formatted(markup, f) :
              markup \in {"Math", "Bold"},
              f \in UNION { Forests(k, {Text(t) : t \in FormulaTexts},
                                    {Kind("Formatted", "Math"), Kind("Formatted", "Bold")},
                                    {}) : k \in 0..(n - 1) } }

ConvertTemplateList ==
    /\ op = "none"
    /\ op' = "convert_template_list"
    /\ \E root \in ListInputs(MaxNodes) :
          /\ arg' = root
          /\ result' = convert_template_list(root)
    /\ UNCHANGED <<defs, phase, registry, arms, found, parsed, pred, calls>>

NormalizeMathFormulas ==
    /\ op = "none"
    /\ op' = "normalize_math_formulas"
    /\ \E root \in MathInputs(MaxNodes) : \E checker \in CheckerInputs :
          LET r == normalize_math_formulas(root, checker) IN
          /\ arg' = root
          /\ pred' = checker
          /\ result' = r.result
          /\ calls' = r.asked
    /\ UNCHANGED <<defs, phase, registry, arms, found, parsed>>

NextTransform ==
    \/ ConvertTemplateList
    \/ NormalizeMathFormulas
    \/ Return

SpecTransform == Init /\ [][NextTransform]_vars

----------------------------------------------------------------------------
(* Properties.  They are stated over the specification list `defs` and the *)
(* argument of the call, not over the generated code.                      *)

Norm(s) == to_lowercase(trim(s))

\* The name of a template invocation as text.
InvokedName(template) == Norm(extract_plain_text(template.name))

HasAlias(d, name) == \E k \in 1..Len(d.names) : Norm(d.names[k]) = name

Known(name) == \E i \in 1..Len(defs) : HasAlias(defs[i], name)

\* The first definition, in the order of the list, with the alias.
FirstSchema(name) ==
    CHOOSE i \in 1..Len(defs) :
        HasAlias(defs[i], name) /\ \A j \in 1..(i - 1) : ~HasAlias(defs[j], name)

ArgMatches(child, attribute) ==
    /\ child.kind = "TemplateArgument"
    /\ \E k \in 1..Len(attribute.names) : Norm(child.text) = Norm(attribute.names[k])

HasArg(template, attribute) ==
    \E j \in 1..Len(template.content) : ArgMatches(template.content[j], attribute)

\* The first child, in the order of the argument list, that matches.
FirstArg(template, attribute) ==
    template.content[
        CHOOSE j \in 1..Len(template.content) :
            /\ ArgMatches(template.content[j], attribute)
            /\ \A i \in 1..(j - 1) : ~ArgMatches(template.content[i], attribute)]

Satisfiable(d, template) ==
    \A k \in 1..Len(d.attributes) :
        d.attributes[k].priority = "Required" => HasArg(template, d.attributes[k])

\* C1: parse_template returns a KnownTemplate exactly when the trimmed,
\* lowercased name is an alias of some schema and every Required attribute
\* of the first such schema has a matching argument; the variant is that
\* first schema's.  Otherwise the result is None: no later schema is tried.
C1_ParseSelectsFirstSchema ==
    op = "parse_template" =>
        LET name == InvokedName(arg) IN
        IF Known(name) /\ Satisfiable(defs[FirstSchema(name)], arg)
        THEN parsed # None /\ parsed[1].identifier = defs[FirstSchema(name)].identifier
        ELSE parsed = None

\* The first schema with the name lacks a required argument, a later schema
\* with the same alias would have been satisfied, and the result is None.
C1_Witness ==
    /\ op = "parse_template"
    /\ parsed = None
    /\ Known(InvokedName(arg))
    /\ \E j \in 1..Len(defs) :
          /\ j > FirstSchema(InvokedName(arg))
          /\ HasAlias(defs[j], InvokedName(arg))
          /\ Satisfiable(defs[j], arg)

\* The attributes of a definition that have a matching argument.
FoundAttrs(d, template) ==
    {k \in 1..Len(d.attributes) : HasArg(template, d.attributes[k])}

\* C2: the `present` list of a returned KnownTemplate has exactly one entry
\* per declared attribute with a matching argument, in schema order,
\* whatever the priority; an entry carries the attribute's identifier, its
\* priority and the value found.
C2_PresentInSchemaOrder ==
    (op = "parse_template" /\ parsed # None) =>
        LET d == defs[FirstSchema(InvokedName(arg))]
            here == FoundAttrs(d, arg)
            present == parsed[1].present
        IN  /\ Len(present) = Cardinality(here)
            /\ \A k \in here :
                  present[Cardinality({j \in here : j <= k})] =
                      [name |-> d.attributes[k].identifier,
                       priority |-> d.attributes[k].priority,
                       value |-> FirstArg(arg, d.attributes[k]).content]

\* Two attributes of different priority are present, and their arguments
\* were supplied in the opposite order.
C2_Witness ==
    /\ op = "parse_template"
    /\ parsed # None
    /\ Len(parsed[1].present) = 2
    /\ Len(arg.content) = 2
    /\ parsed[1].present[1].priority # parsed[1].present[2].priority
    /\ parsed[1].present[1].value = arg.content[2].content
    /\ parsed[1].present[2].value = arg.content[1].content

\* C3: the typed field of each declared attribute holds the value of the
\* first argument, in argument order, whose name matches any alias of the
\* attribute case-insensitively (an optional field: Some of it, or None).
C3_FieldIsFirstMatchingArg ==
    (op = "parse_template" /\ parsed # None) =>
        LET d == defs[FirstSchema(InvokedName(arg))]
            fields == parsed[1].fields
        IN  /\ Len(fields) = Len(d.attributes)
            /\ \A k \in 1..Len(d.attributes) :
                  LET a == d.attributes[k] IN
                  /\ fields[k].name = a.identifier
                  /\ fields[k].value =
                        IF a.priority = "Required" THEN FirstArg(arg, a).content
                        ELSE IF HasArg(arg, a) THEN Some(FirstArg(arg, a).content)
                        ELSE None

\* An attribute with two aliases; the first argument matches its second
\* alias, the second argument its first alias written in another case; the
\* field holds the value of the first argument.
C3_Witness ==
    /\ op = "parse_template"
    /\ parsed # None
    /\ Len(arg.content) = 2
    /\ \E k \in 1..Len(parsed[1].fields) :
          LET a == defs[FirstSchema(InvokedName(arg))].attributes[k] IN
          /\ Len(a.names) = 2
          /\ Norm(arg.content[1].text) = Norm(a.names[2])
          /\ Norm(arg.content[2].text) = Norm(a.names[1])
          /\ arg.content[2].text # a.names[1]
          /\ arg.content[1].kind = "TemplateArgument"
          /\ arg.content[2].kind = "TemplateArgument"
          /\ parsed[1].fields[k].value = Some(arg.content[1].content)

\* C4: spec_of(n) is the first schema, in registry order, with an alias
\* equal to n after both are trimmed and lowercased, and None if there is
\* none; the answer for n is the answer for n trimmed and lowercased.
C4_SpecOfNormalises ==
    op = "spec_of" =>
        /\ found = IF Known(Norm(arg)) THEN Some(registry[FirstSchema(Norm(arg))]) ELSE None
        /\ found = spec_of(registry, Norm(arg))

\* A name with blanks and a capital finds a schema through an alias that is
\* itself declared with blanks and a capital, and a later schema has the
\* alias too.
C4_Witness ==
    /\ op = "spec_of"
    /\ found # None
    /\ Len(arg) = 3
    /\ trim(arg) # arg
    /\ to_lowercase(arg) # arg
    /\ \E k \in 1..Len(defs[FirstSchema(Norm(arg))].names) :
          LET alias == defs[FirstSchema(Norm(arg))].names[k] IN
          Norm(alias) = Norm(arg) /\ trim(alias) # alias /\ to_lowercase(alias) # alias
    /\ \E j \in 1..Len(defs) : j > FirstSchema(Norm(arg)) /\ HasAlias(defs[j], Norm(arg))

\* The authoring errors of section 4.1.
StartsUppercase(id) == id # <<>> /\ id[1] \in UpperChars

FullyLowercase(id) == id = to_lowercase(id)

Faulty(d) ==
    \/ ~StartsUppercase(d.identifier)
    \/ d.names = <<>>
    \/ \E k \in 1..Len(d.attributes) :
          \/ ~FullyLowercase(d.attributes[k].identifier)
          \/ d.attributes[k].names = <<>>

\* C5: template_spec fails fast, producing no registry, whenever a template
\* identifier does not start with an uppercase character, an attribute
\* identifier is not fully lowercase, or a template or attribute has an
\* empty alias list.
C5_FailFast ==
    (phase # "authoring" /\ \E i \in 1..Len(defs) : Faulty(defs[i])) =>
        phase = "panicked" /\ registry = <<>> /\ arms = <<>>

\* The macro panicked on a list whose first definition is well formed and
\* whose second has an attribute without alias after a well-formed one.
C5_Witness ==
    /\ phase = "panicked"
    /\ Len(defs) = 2
    /\ ~Faulty(defs[1])
    /\ StartsUppercase(defs[2].identifier)
    /\ defs[2].names # <<>>
    /\ Len(defs[2].attributes) = 2
    /\ defs[2].attributes[2].names = <<>>
    /\ \A k \in 1..2 : FullyLowercase(defs[2].attributes[k].identifier)

\* C6: for a list that passes the checks the macro succeeds and spec() holds
\* one TemplateSpec per definition, in definition order, each with the
\* definition's attributes in declaration order.
C6_SpecListMirrorsDefs ==
    (phase # "authoring" /\ \A i \in 1..Len(defs) : ~Faulty(defs[i])) =>
        /\ phase = "compiled"
        /\ Len(registry) = Len(defs)
        /\ \A i \in 1..Len(defs) :
              /\ Len(registry[i].names) = Len(defs[i].names)
              /\ \A k \in 1..Len(defs[i].names) :
                    registry[i].names[k] = Norm(defs[i].names[k])
              /\ registry[i].format = defs[i].format
              /\ Len(registry[i].attributes) = Len(defs[i].attributes)
              /\ \A k \in 1..Len(defs[i].attributes) :
                    LET a == defs[i].attributes[k]
                        b == registry[i].attributes[k]
                    IN  /\ Len(b.names) = Len(a.names)
                        /\ \A n \in 1..Len(a.names) : b.names[n] = Norm(a.names[n])
                        /\ b.priority = a.priority
                        /\ b.predicate_name = a.predicate

\* Two definitions were compiled that differ in names and attributes, one
\* of them with two attributes of different priority.
C6_Witness ==
    /\ phase = "compiled"
    /\ Len(registry) = 2
    /\ registry[1].names # registry[2].names
    /\ Len(registry[1].attributes) = 2
    /\ registry[1].attributes[1].priority # registry[1].attributes[2].priority
    /\ registry[1].attributes # registry[2].attributes

\* The concatenation of a sequence of sequences.
RECURSIVE Concat(_)
Concat(seqs) == IF seqs = <<>> THEN <<>> ELSE Head(seqs) \o Concat(Tail(seqs))

\* The node lists of a tree in document order, depth first: a list, then for
\* each of its elements the node lists of the element, each followed by its own.
RECURSIVE DocOrder(_)
DocOrder(nodes) ==
    <<nodes>> \o
    Concat([i \in 1..Len(nodes) |->
              Concat([j \in 1..Len(ChildLists(nodes[i])) |->
                        DocOrder(ChildLists(nodes[i])[j])])])

Succeeds(predicate, nodes) == Apply(predicate, nodes).ok

\* C7: always short-circuits.  The predicate is invoked on the node lists in
\* document order, depth first; once an invocation returns an error the
\* predicate is never invoked again, and that error is the result.
C7_ShortCircuit ==
    op = "always" =>
        LET order == DocOrder(arg)
            n == Len(calls)
        IN  /\ n >= 1 /\ n <= Len(order)
            /\ \A i \in 1..n : calls[i] = order[i]
            /\ \A i \in 1..(n - 1) : Succeeds(pred, calls[i])
            /\ result = Apply(pred, calls[n])
            /\ Succeeds(pred, calls[n]) => n = Len(order)

\* Two sibling node lists, the predicate fails on the second only: the error
\* is the one for the second list, and the list inside it is never visited.
C7_Witness ==
    /\ op = "always"
    /\ Len(arg) = 2
    /\ arg[1].kind = "Paragraph" /\ arg[2].kind = "Paragraph"
    /\ arg[1].content # <<>>
    /\ pred = FailsOn({arg[2].content})
    /\ calls = <<arg, arg[1].content, arg[2].content>>
    /\ result = Err(first(arg[2].content), "fails")
    /\ Len(DocOrder(arg)) > 3

\* C8 (amended): always(nodes, P) returns success exactly when P succeeds on
\* `nodes` itself and on every node list at any depth inside `nodes`; so it
\* succeeds for every tree when P always succeeds, and on an empty node list
\* exactly when P succeeds on the empty list.
C8_SuccessIffEveryListPasses ==
    op = "always" =>
        /\ result.ok <=> \A nodes \in NodeLists(arg) : Succeeds(pred, nodes)
        /\ pred = FailsOn({}) => result.ok
        /\ arg = <<>> => (result.ok <=> Succeeds(pred, <<>>))

\* The predicate fails on one node list only, the last of a tree in document
\* order and not the root, and always returns that failure.
C8_Witness ==
    /\ op = "always"
    /\ ~result.ok
    /\ Succeeds(pred, arg)
    /\ Len(DocOrder(arg)) >= 4
    /\ Cardinality({nodes \in NodeLists(arg) : ~Succeeds(pred, nodes)}) = 1
    /\ ~Succeeds(pred, DocOrder(arg)[Len(DocOrder(arg))])

\* C8 as claimed: in addition, always succeeds on an empty node list.
C8_Original ==
    op = "always" =>
        /\ result.ok <=> \A nodes \in NodeLists(arg) : Succeeds(pred, nodes)
        /\ pred = FailsOn({}) => result.ok
        /\ arg = <<>> => result.ok

\* Every node at every depth is a Paragraph or a Text.
AllPlain(elems) ==
    \A nodes \in NodeLists(elems) :
        \A i \in 1..Len(nodes) : nodes[i].kind \in {"Paragraph", "Text"}

\* C9: is_negative_switch succeeds exactly when every node at every depth is
\* Paragraph or Text and the extracted plain text, trimmed, is "nein" in
\* lowercase; every other input fails with the fixed message.
C9_NegativeSwitch ==
    op = "is_negative_switch" =>
        result = IF AllPlain(arg) /\ trim(extract_plain_text(arg)) = <<"n", "e", "i", "n">>
                 THEN Ok
                 ELSE Err(first(arg), NegativeSwitchCause)

\* "nein" spread over a paragraph and a text, with blanks around it, passes.
C9_Witness ==
    /\ op = "is_negative_switch"
    /\ result.ok
    /\ Len(arg) = 2
    /\ arg[1].kind = "Paragraph"
    /\ arg[2].kind = "Text"
    /\ extract_plain_text(arg) = <<" ", "n", "e", "i", "n", " ">>

\* C10: is_math_tag succeeds exactly when the node list has exactly one
\* element and it is a Formatted node of markup Math, whatever its content.
C10_MathTag ==
    op = "is_math_tag" =>
        (result.ok <=> (Len(arg) = 1 /\ arg[1].kind = "Formatted" /\ arg[1].markup = "Math"))

\* A Math node whose content is two elements, one of them no text, passes.
C10_Witness ==
    /\ op = "is_math_tag"
    /\ result.ok
    /\ Len(arg[1].content) = 2
    /\ arg[1].content[1].kind # "Text"

\* C15: in a returned KnownTemplate the typed fields and `present` agree.
\* Every Required attribute of the schema has an entry in `present`; an
\* Optional attribute has one exactly when its typed field is Some; the value
\* of an entry is the value of the typed field; and find(identifier) is Some
\* for every Required attribute.
C15_FieldsAgreeWithPresent ==
    (op = "parse_template" /\ parsed # None) =>
        LET d == defs[FirstSchema(InvokedName(arg))]
            known == parsed[1]
            Entries(id) == {n \in 1..Len(known.present) : known.present[n].name = id}
        IN  /\ \A n \in 1..Len(known.present) :
                  \E k \in 1..Len(d.attributes) :
                      known.present[n].name = d.attributes[k].identifier
            /\ \A k \in 1..Len(d.attributes) :
                  LET a == d.attributes[k]
                      field == known.fields[k].value
                  IN  IF a.priority = "Required"
                      THEN /\ Entries(a.identifier) # {}
                           /\ \A n \in Entries(a.identifier) : known.present[n].value = field
                           /\ find(known, a.identifier) # None
                           /\ find(known, a.identifier)[1].value = field
                      ELSE /\ Entries(a.identifier) # {} <=> field # None
                           /\ \A n \in Entries(a.identifier) : known.present[n].value = field[1]
                           /\ find(known, a.identifier) = None <=> field = None

\* A schema with a required and an optional attribute: the optional one is
\* absent, its field is None and it has no entry; find returns the entry of
\* the required one, whose value is the typed field's.
C15_Witness ==
    /\ op = "parse_template"
    /\ parsed # None
    /\ Len(parsed[1].fields) = 2
    /\ Len(parsed[1].present) = 1
    /\ \E k \in 1..2 :
          /\ defs[FirstSchema(InvokedName(arg))].attributes[k].priority = "Optional"
          /\ parsed[1].fields[k].value = None
          /\ find(parsed[1], parsed[1].fields[k].name) = None
          /\ find(parsed[1], parsed[1].fields[3 - k].name) =
                Some([name |-> parsed[1].fields[3 - k].name,
                      priority |-> "Required",
                      value |-> parsed[1].fields[3 - k].value])

\* The verdict of is_theorem_paragraph on one node, by the definitions.
TemplateVerdict(template) ==
    LET name == InvokedName(template) IN
    IF ~Known(name) THEN "no specification"
    ELSE LET d == defs[FirstSchema(name)] IN
         IF d.identifier = ProofStep /\ Satisfiable(d, template) THEN "pass"
         ELSE IF d.format = "Inline" THEN "pass"
         ELSE "not inline"

NodeVerdict(elem) ==
    CASE elem.kind = "Template" -> TemplateVerdict(elem)
      [] elem.kind \in {"Heading", "Table", "TableRow", "TableCell"} -> "not allowed"
      [] OTHER -> "pass"

\* C11: is_theorem_paragraph judges the nodes at every depth.  A Template
\* whose name has no registry entry is an error "has no specification"; one
\* that parse_template resolves to ProofStep passes whatever its format; any
\* other Template with a registry entry passes exactly when the format of
\* its spec is Inline; Heading, Table, TableRow and TableCell fail; every
\* other kind passes.  The result is the error of the first node, in
\* document order, that does not pass, and success when all pass.
C11_TheoremParagraph ==
    op = "is_theorem_paragraph" =>
        LET nodes == Concat(DocOrder(arg))
            bad == {i \in 1..Len(nodes) : NodeVerdict(nodes[i]) # "pass"}
        IN  IF bad = {} THEN result = Ok
            ELSE LET elem == nodes[CHOOSE i \in bad : \A j \in bad : i <= j]
                     verdict == NodeVerdict(elem)
                 IN  /\ ~result.ok
                     /\ verdict = "no specification" =>
                            /\ result.tree = None
                            /\ result.cause =
                                  "\"" \o Str(extract_plain_text(elem.name))
                                       \o "\" has no specification!"
                     /\ verdict = "not inline" =>
                            /\ result.tree = Some(elem)
                            /\ result.cause =
                                  "\"" \o Str(extract_plain_text(elem.name))
                                       \o "\" is not an inline template!"
                     /\ verdict = "not allowed" =>
                            /\ result.tree = Some(elem)
                            /\ result.cause = "This markup is not allowed in proofs!"

\* A block template ProofStep is resolved and allowed; the template inside
\* its argument has no specification, and that is the error.
C11_Witness ==
    /\ op = "is_theorem_paragraph"
    /\ Len(arg) = 1
    /\ arg[1].kind = "Template"
    /\ parse_template(arms, arg[1]) # None
    /\ parse_template(arms, arg[1])[1].identifier = ProofStep
    /\ parse_template(arms, arg[1])[1].format = "Block"
    /\ Len(arg[1].content) = 1
    /\ arg[1].content[1].content = <<Template(<<Text(<<"q">>)>>, <<>>)>>
    /\ result = Err(None, "\"q\" has no specification!")

\* A Template whose name, trimmed and lowercased, is "list" or "liste".
IsListTemplate(elem) ==
    /\ elem.kind = "Template"
    /\ Norm(extract_plain_text(elem.name))
          \in {<<"l", "i", "s", "t">>, <<"l", "i", "s", "t", "e">>}

HasPrefix(child, prefix) == child.kind = "TemplateArgument" /\ starts_with(child.text, prefix)

IsItem(child) == HasPrefix(child, <<"i", "t", "e", "m">>)

IsSublist(child) == HasPrefix(child, <<"l", "i", "s", "t">>)

HasListArgument(template) ==
    \E i \in 1..Len(template.content) : IsSublist(template.content[i])

\* The arguments with prefix "item", in argument order.
Items(template) == SelectSeq(template.content, IsItem)

IsType(child) ==
    child.kind = "TemplateArgument" /\ Norm(child.text) = <<"t", "y", "p", "e">>

\* Ordered when the first argument "type" reads "ol" or "ordered".
ExpectedKind(template) ==
    LET types == SelectSeq(template.content, IsType) IN
    IF /\ types # <<>>
       /\ Norm(extract_plain_text(types[1].content))
             \in {<<"o", "l">>, <<"o", "r", "d", "e", "r", "e", "d">>}
    THEN "Ordered"
    ELSE "Unordered"

\* The pass applied to every element of a node list.
RewriteAll(nodes) == [i \in 1..Len(nodes) |-> convert_template_list(nodes[i]).value]

\* A list template occurs in the node list, at any depth.
ContainsListTemplate(nodes) ==
    \E l \in NodeLists(nodes) : \E i \in 1..Len(l) : IsListTemplate(l[i])

\* The List made of the items of a template.
ListOfItems(template) ==
    List([k \in 1..Len(Items(template)) |->
            ListItem(RewriteAll(Items(template)[k].content), ExpectedKind(template), 1)])

Sublists(template) ==
    SelectSeq(template.content, LAMBDA child : IsSublist(child) /\ child.content # <<>>)

\* An element with the pass applied to its children, itself left as it is.
ChildrenRewritten(elem) == [elem EXCEPT !.name = RewriteAll(@), !.content = RewriteAll(@)]

\* C13 (amended): when a list template has an argument with prefix "list"
\* whose value is not empty, the Template is replaced by the first content
\* element of the value of the first such argument, with the pass applied
\* to the children of that element, and no new List is wrapped around it.
\* Arguments with prefix "list" and an empty value are skipped: when all of
\* them are empty the template becomes the List of its items.
C13_SublistReplacesTemplate ==
    (op = "convert_template_list" /\ IsListTemplate(arg) /\ HasListArgument(arg)) =>
        IF Sublists(arg) # <<>>
        THEN /\ result.value = ChildrenRewritten(Sublists(arg)[1].content[1])
             /\ result.value.kind = Sublists(arg)[1].content[1].kind
        ELSE result.value = ListOfItems(arg)

\* The value of an argument "list" is a List that holds a list template:
\* that List replaces the template, nothing is wrapped around it, and the
\* list template inside it has become a List.
C13_Witness ==
    /\ op = "convert_template_list"
    /\ IsListTemplate(arg)
    /\ Len(arg.content) = 1
    /\ IsSublist(arg.content[1])
    /\ arg.content[1].content = <<List(<<Template(<<Text(<<"l", "i", "s", "t">>)>>, <<>>)>>)>>
    /\ result = TOk(List(<<List(<<>>)>>))

\* C13 as claimed: whenever a list template has an argument with prefix
\* "list", the Template is replaced by the first content element of the value
\* of such an argument, rewritten recursively, and no new List is wrapped.
C13_Original ==
    (op = "convert_template_list" /\ IsListTemplate(arg) /\ HasListArgument(arg)) =>
        \E i \in 1..Len(arg.content) :
            /\ IsSublist(arg.content[i])
            /\ arg.content[i].content # <<>>
            /\ result.value = ChildrenRewritten(arg.content[i].content[1])

\* C16: after convert_template_list no Template whose name, trimmed and
\* lowercased, is "list" or "liste" remains anywhere in the result, also for
\* list templates inside "item" or "list" arguments of list templates; and
\* a second application leaves the result unchanged.
C16_NoListTemplateRemains ==
    op = "convert_template_list" =>
        /\ ~ContainsListTemplate(<<result.value>>)
        /\ convert_template_list(result.value) = result

\* A list template is the first element of an argument "list" of a list
\* template: it is the result, and only a second application turns it
\* into a List.
C16_Witness ==
    /\ op = "convert_template_list"
    /\ IsListTemplate(arg)
    /\ Len(arg.content) = 1
    /\ IsSublist(arg.content[1])
    /\ Len(arg.content[1].content) = 1
    /\ IsListTemplate(arg.content[1].content[1])
    /\ IsListTemplate(result.value)
    /\ convert_template_list(result.value).value.kind = "List"

IsMath(elem) == elem.kind = "Formatted" /\ elem.markup = "Math"

\* The nodes of the input and of the output of normalize_math_formulas
\* correspond as C14 says: a Math node is an Error with the message for its
\* content unless the content is exactly one Text; no other node is replaced.
RECURSIVE MalformedFormulasReplaced(_, _)
MalformedFormulasReplaced(in, out) ==
    IF IsMath(in)
    THEN IF Len(in.content) # 1
         THEN out = Error("A formula must have exactly one content element!")
         ELSE IF in.content[1].kind # "Text"
              THEN out = Error("A formula must only have text as content!")
              ELSE TRUE
    ELSE /\ out.kind = in.kind
         /\ out.markup = in.markup
         /\ Len(out.content) = Len(in.content)
         /\ \A i \in 1..Len(in.content) :
               MalformedFormulasReplaced(in.content[i], out.content[i])

\* The formulas of the Math nodes whose content is exactly one Text, in
\* document order; nothing inside a replaced node is looked at.
RECURSIVE FormulasOf(_)
FormulasOf(nodes) ==
    IF nodes = <<>> THEN <<>>
    ELSE LET elem == Head(nodes) IN
         (IF IsMath(elem)
          THEN IF Len(elem.content) = 1 /\ elem.content[1].kind = "Text"
               THEN <<elem.content[1].text>>
               ELSE <<>>
          ELSE FormulasOf(elem.content))
         \o FormulasOf(Tail(nodes))

\* C14: normalize_math_formulas replaces every Formatted node of markup Math
\* whose content is not exactly one Text node by an Error node, "A formula
\* must have exactly one content element!" when the content is not one
\* element and "A formula must only have text as content!" when the one
\* element is not Text, and never calls the checker for it.  A Formatted
\* node of another markup is never replaced by an Error and never passed to
\* the checker: the checker is asked about the formulas of the Math nodes
\* with exactly one Text, and nothing else.
C14_MalformedFormulaIsError ==
    op = "normalize_math_formulas" =>
        /\ result.ok
        /\ MalformedFormulasReplaced(arg, result.value)
        /\ calls = FormulasOf(<<arg>>)

\* A Math node with two Text children inside a bold node: the bold node
\* stays, the Math node is the Error, and the checker was not asked.
C14_Witness ==
    /\ op = "normalize_math_formulas"
    /\ arg.kind = "Formatted" /\ arg.markup = "Bold"
    /\ Len(arg.content) = 1
    /\ IsMath(arg.content[1])
    /\ Len(arg.content[1].content) = 2
    /\ arg.content[1].content[1].kind = "Text"
    /\ arg.content[1].content[2].kind = "Text"
    /\ result = TOk(Formatted("Bold",
                      <<Error("A formula must have exactly one content element!")>>))
    /\ calls = <<>>

====
